---------------------------- MODULE Spec2Model ----------------------------
(***************************************************************************)
(* A model of src/api/index.py (the court bankruptcy-notice scraper API):  *)
(* classify_category, extract_bid_info, format_price,                      *)
(* SCourtScraper.get_notice_list, SCourtScraper.get_notice_detail and the  *)
(* /api/notices/{detail_id} endpoint.                                      *)
(*                                                                         *)
(* Text.  A Python str is a sequence of characters; here it is a sequence  *)
(* of tokens, one token per character.  ASCII characters are themselves    *)
(* ("0", ",", "a").  A Hangul syllable is one token, written as its        *)
(* romanisation with a capital first letter and at least two letters       *)
(* ("Bu" "Dong" "San" is the three-character word for real estate), so     *)
(* that no syllable collides with a Latin letter.  Other non-ASCII         *)
(* characters: "FwPct" is the full-width percent sign, "Sqm" the square    *)
(* metre sign, "WonSign" the won currency sign.                            *)
(*                                                                         *)
(* Optional values.  Python's None is the empty tuple and a present value  *)
(* v is the one-element tuple <<v>>.                                       *)
(*                                                                         *)
(* Integers.  Python integers are unbounded and a price can exceed 2^31,   *)
(* so a non-negative integer n is held as [hi, lo] with n = hi*10^8 + lo   *)
(* and 0 <= lo < 10^8.                                                     *)
(***************************************************************************)
EXTENDS Integers, Sequences, FiniteSets, TLC

VARIABLES call, ret

vars == <<call, ret>>

None == << >>
Some(v) == <<v>>

(***************************************************************************)
(* Strings                                                                 *)
(***************************************************************************)
UpperLetters == <<"A","B","C","D","E","F","G","H","I","J","K","L","M",
                  "N","O","P","Q","R","S","T","U","V","W","X","Y","Z">>
LowerLetters == <<"a","b","c","d","e","f","g","h","i","j","k","l","m",
                  "n","o","p","q","r","s","t","u","v","w","x","y","z">>

\* str.lower() on one character: only cased (Latin) letters change.
LowerChar(c) ==
    IF \E i \in 1..26 : UpperLetters[i] = c
    THEN LowerLetters[CHOOSE i \in 1..26 : UpperLetters[i] = c]
    ELSE c

\* str.lower()
Lower(s) == [i \in 1..Len(s) |-> LowerChar(s[i])]

\* k in s  (substring test)
IsSubstr(k, s) ==
    \E i \in 1..(Len(s) - Len(k) + 1) : SubSeq(s, i, i + Len(k) - 1) = k

\* s.endswith(k)
EndsWith(s, k) ==
    /\ Len(k) <= Len(s)
    /\ SubSeq(s, Len(s) - Len(k) + 1, Len(s)) = k

\* s[:n]
Take(s, n) == SubSeq(s, 1, IF Len(s) < n THEN Len(s) ELSE n)

\* the characters str.strip() removes and the regex class \s matches
Whitespace == {" ", "\n", "\t", "\r"}

\* s.strip()
Strip(s) ==
    LET keep == {i \in 1..Len(s) : s[i] \notin Whitespace}
    IN  IF keep = {} THEN << >>
        ELSE LET lo == CHOOSE i \in keep : \A j \in keep : i <= j
                 hi == CHOOSE i \in keep : \A j \in keep : j <= i
             IN  SubSeq(s, lo, hi)

\* s.replace(c, '') for a single character c
RECURSIVE RemoveChar(_, _)
RemoveChar(s, c) ==
    IF s = << >> THEN << >>
    ELSE IF Head(s) = c THEN RemoveChar(Tail(s), c)
    ELSE <<Head(s)>> \o RemoveChar(Tail(s), c)

\* concatenation of a sequence of strings
RECURSIVE Flatten(_)
Flatten(ss) == IF ss = << >> THEN << >> ELSE Head(ss) \o Flatten(Tail(ss))

Digits == <<"0","1","2","3","4","5","6","7","8","9">>
DigitSet == {Digits[i] : i \in 1..10}
DigitVal(c) == (CHOOSE i \in 1..10 : Digits[i] = c) - 1

(***************************************************************************)
(* Integers as [hi, lo], n = hi * 10^8 + lo                                *)
(***************************************************************************)
Eok == 100000000
Man == 10000

Big(h, l) == [hi |-> h, lo |-> l]

\* int(s) for a string of decimal digits; ValueError (None here) when s is
\* empty.  Leading zeros are accepted, as Python's int() accepts them.
RECURSIVE ParseDigits(_, _)
ParseDigits(s, acc) ==
    IF s = << >> THEN acc
    ELSE LET t == acc.lo * 10 + DigitVal(Head(s))
         IN  ParseDigits(Tail(s), Big(acc.hi * 10 + t \div Eok, t % Eok))

ParseInt(s) ==
    IF s = << >> \/ \E i \in 1..Len(s) : s[i] \notin DigitSet
    THEN None
    ELSE Some(ParseDigits(s, Big(0, 0)))

\* str(n) / f"{n}" for a machine-sized n >= 0
RECURSIVE Dec(_)
Dec(n) == IF n < 10 THEN <<Digits[n + 1]>>
          ELSE Dec(n \div 10) \o <<Digits[(n % 10) + 1]>>

\* three digits, zero padded
Dec3(n) == <<Digits[(n \div 100) + 1], Digits[((n \div 10) % 10) + 1],
             Digits[(n % 10) + 1]>>

\* f"{n:,}" for a machine-sized n >= 0
RECURSIVE Commas(_)
Commas(n) == IF n < 1000 THEN Dec(n)
             ELSE Commas(n \div 1000) \o <<",">> \o Dec3(n % 1000)


(***************************************************************************)
(* Regular expressions (Python's re, the subset the source uses)           *)
(*                                                                         *)
(* A pattern is a tree: "ch" one character of a set (neg: not of the set), *)
(* "lit" a literal string, "cat" a sequence, "opt" x?, "star" x*, "plus"   *)
(* x+, "alt" x|y, "grp" capture group n.  Match is the backtracking        *)
(* matcher of re:                                                          *)
(* it matches a list of patterns one after another from st.pos and yields  *)
(* the first success in the engine's priority order (quantifiers greedy),  *)
(* or None.  Every starred sub-pattern of the source consumes at least one *)
(* character, so the iteration needs no empty-match guard.  Neither the    *)
(* scan over the start positions nor the repetition of a character class   *)
(* nests one evaluation per character, so that long texts can be matched.  *)
(***************************************************************************)
Ch(S)      == [t |-> "ch", set |-> S, neg |-> FALSE]
NotCh(S)   == [t |-> "ch", set |-> S, neg |-> TRUE]
Lit(w)     == [t |-> "lit", s |-> w]
Cat(rs)    == [t |-> "cat", rs |-> rs]
Opt(r)     == [t |-> "opt", r |-> r]
Star(r)    == [t |-> "star", r |-> r]
Plus(r)    == [t |-> "plus", r |-> r]
Alt(rs)    == [t |-> "alt", rs |-> rs]
Grp(n, r)  == [t |-> "grp", n |-> n, r |-> r]
GrpEnd(n, from) == [t |-> "end", n |-> n, from |-> from]

RECURSIVE Match(_, _, _)
Match(rs, s, st) ==
    IF rs = << >> THEN Some(st)
    ELSE
      LET r == Head(rs)
          k == Tail(rs)
      IN  CASE r.t = "ch" ->
                 IF st.pos <= Len(s) /\ ((s[st.pos] \in r.set) # r.neg)
                 THEN Match(k, s, [st EXCEPT !.pos = @ + 1])
                 ELSE None
            [] r.t = "lit" ->
                 IF /\ st.pos + Len(r.s) - 1 <= Len(s)
                    /\ SubSeq(s, st.pos, st.pos + Len(r.s) - 1) = r.s
                 THEN Match(k, s, [st EXCEPT !.pos = @ + Len(r.s)])
                 ELSE None
            [] r.t = "cat" -> Match(r.rs \o k, s, st)
            [] r.t = "opt" ->
                 LET a == Match(<<r.r>> \o k, s, st)
                 IN  IF a # None THEN a ELSE Match(k, s, st)
            [] r.t = "star" ->
                 IF r.r.t = "ch"
                 THEN \* a starred character class: the run of characters of
                      \* the class ends before `end`; the engine tries the
                      \* longest repetition first and gives back one
                      \* character at a time
                      LET stop == {j \in st.pos..Len(s) : (s[j] \in r.r.set) = r.r.neg}
                          end  == IF stop = {} THEN Len(s) + 1
                                  ELSE CHOOSE j \in stop : \A i \in stop : j <= i
                          Ok(n) == Match(k, s, [st EXCEPT !.pos = end - n]) # None
                      IN  IF \E n \in 0..(end - st.pos) : Ok(n)
                          THEN Match(k, s, [st EXCEPT !.pos =
                                   end - CHOOSE n \in 0..(end - st.pos) :
                                             Ok(n) /\ \A m \in 0..(n - 1) : ~Ok(m)])
                          ELSE None
                 ELSE LET a == Match(<<r.r, r>> \o k, s, st)
                      IN  IF a # None THEN a ELSE Match(k, s, st)
            [] r.t = "plus" -> Match(<<r.r, Star(r.r)>> \o k, s, st)
            [] r.t = "alt" ->
                 IF r.rs = << >> THEN None
                 ELSE LET a == Match(<<Head(r.rs)>> \o k, s, st)
                      IN  IF a # None THEN a
                          ELSE Match(<<Alt(Tail(r.rs))>> \o k, s, st)
            [] r.t = "grp" -> Match(<<r.r, GrpEnd(r.n, st.pos)>> \o k, s, st)
            [] r.t = "end" ->
                 Match(k, s, [st EXCEPT !.g[r.n] = SubSeq(s, r.from, st.pos - 1)])

\* re.search(r, s): the match at the leftmost start position, or None.
\* A match is [pos |-> one past its end, g |-> <<group(1), group(2)>>].
SearchFrom(r, s, i) ==
    LET At(j) == Match(<<r>>, s, [pos |-> j, g |-> << << >>, << >> >>])
    IN  IF \E j \in i..(Len(s) + 1) : At(j) # None
        THEN At(CHOOSE j \in i..(Len(s) + 1) :
                    At(j) # None /\ \A h \in i..(j - 1) : At(h) = None)
        ELSE None

Search(r, s) == SearchFrom(r, s, 1)

\* character classes of the source's patterns
D       == Ch(DigitSet)                          \* \d, [0-9]
WS      == Ch(Whitespace)                        \* \s
ColonWs == Ch({":"} \cup Whitespace)             \* [:\s]
NumC    == Ch(DigitSet \cup {","})               \* [0-9,]
NumCD   == Ch(DigitSet \cup {",", "."})          \* [0-9,.]
Pct     == Ch({"%", "FwPct"})                    \* [%(full-width %)]

(***************************************************************************)
(* classify_category                                                       *)
(***************************************************************************)
real_estate_keywords ==
    << <<"Bu","Dong","San">>, <<"To","Ji">>, <<"Geon","Mul">>,
       <<"Ah","Pa","Teu">>, <<"Ju","Taek">>, <<"Oh","Pi","Seu","Tel">>,
       <<"Sang","Ga">>, <<"Gong","Jang">>, <<"Chang","Go">>, <<"Dae","Ji">>,
       <<"Im","Ya">>, <<"Jeon">>, <<"Dap">>, <<"Bil","Ding">>,
       <<"Geun","Rin","Si","Seol">> >>

movable_keywords ==
    << <<"Dong","San">>, <<"Cha","Ryang">>, <<"Ja","Dong","Cha">>,
       <<"Gi","Gye">>, <<"Seol","Bi">>, <<"Jang","Bi">>, <<"Jae","Go">>,
       <<"Mul","Pum">>, <<"Ga","Gu">>, <<"Jip","Gi">>, <<"Bi","Pum">>,
       <<"Jung","Jang","Bi">>, <<"Teu","Reok">> >>

bond_keywords ==
    << <<"Chae","Gwon">>, <<"Mae","Chul","Chae","Gwon">>,
       <<"Dae","Yeo","Geum">>, <<"Bo","Jeung","Geum","Ban","Hwan">>,
       <<"Im","Dae","Cha","Bo","Jeung","Geum">>,
       <<"Gong","Sa","Dae","Geum">>, <<"Mul","Pum","Dae","Geum">>,
       <<"Yong","Yeok","Dae","Geum">>, <<"Ye","Geum">>, <<"Jeok","Geum">>,
       <<"Bo","Heom","Geum">>, <<"Ju","Sik">>, <<"Chul","Ja","Ji","Bun">> >>

intangible_keywords ==
    << <<"Mu","Hyeong","Ja","San">>, <<"Teuk","Heo">>, <<"Sang","Pyo">>,
       <<"Yeong","Eop","Gwon">>, <<"Jeo","Jak","Gwon">>,
       <<"Ji","Sik","Jae","San">>, <<"Ra","Ih","Seon","Seu">> >>

\* keyword matching on whole space-delimited words instead of substrings
AnyKeyword_WholeWord(kws, text) ==
    \E i \in 1..Len(kws) : \E a \in 1..Len(text) :
        LET b == a + Len(kws[i]) - 1
        IN  /\ b <= Len(text)
            /\ SubSeq(text, a, b) = kws[i]
            /\ (a = 1 \/ text[a - 1] = " ")
            /\ (b = Len(text) \/ text[b + 1] = " ")

\* for kw in kws: if kw in text
AnyKeyword(kws, text) == \E i \in 1..Len(kws) : IsSubstr(kws[i], text)

\* classify_category with the bond group tried before the other groups
classify_category_BondFirst(title, content) ==
    LET text == Lower(title \o <<" ">> \o content)
    IN  IF AnyKeyword(bond_keywords, text) THEN "Bond"
        ELSE IF AnyKeyword(real_estate_keywords, text) THEN "RealEstate"
        ELSE IF AnyKeyword(movable_keywords, text) THEN "Movable"
        ELSE "Other"

\* The four returned labels stand for the source's Korean label strings.
classify_category(title, content) ==
    LET text == Lower(title \o <<" ">> \o content)
    IN  IF AnyKeyword(real_estate_keywords, text) THEN "RealEstate"
        ELSE IF AnyKeyword(movable_keywords, text) THEN "Movable"
        ELSE IF AnyKeyword(bond_keywords, text) THEN "Bond"
        ELSE IF AnyKeyword(intangible_keywords, text) THEN "Other"
        ELSE "Other"

(***************************************************************************)
(* extract_bid_info                                                        *)
(***************************************************************************)
\* \d{4}[.\-/(year)]\s*\d{1,2}[.\-/(month)]\s*\d{1,2}(day)?
DateCore ==
    Cat(<<D, D, D, D, Ch({".", "-", "/", "Nyeon"}), Star(WS),
          D, Opt(D), Ch({".", "-", "/", "Wol"}), Star(WS),
          D, Opt(D), Opt(Lit(<<"Il">>))>>)

date_patterns ==
    << Cat(<<Lit(<<"Ip","Chal","Gi","Il">>), Star(ColonWs), Grp(1, DateCore)>>),
       Cat(<<Lit(<<"Ip","Chal","Il">>), Star(ColonWs), Grp(1, DateCore)>>),
       Cat(<<Lit(<<"Mae","Gak","Gi","Il">>), Star(ColonWs), Grp(1, DateCore)>>),
       Cat(<<Grp(1, DateCore), Star(NotCh(DigitSet)), Lit(<<"Ip","Chal">>)>>),
       Cat(<<Lit(<<"Gi","Il">>), Star(ColonWs), Grp(1, DateCore)>>) >>

location_patterns ==
    << Cat(<<Lit(<<"Ip","Chal","Jang","So">>), Star(ColonWs),
             Grp(1, Plus(NotCh({"\n", ","})))>>),
       Cat(<<Lit(<<"Jang","So">>), Star(ColonWs),
             Grp(1, Cat(<<Plus(NotCh({"\n", ","})), Lit(<<"Beop","Won">>),
                          Star(NotCh({"\n", ","}))>>))>>) >>

\* [:\s]*([0-9,]+)\s*(won)
AmountTail == Cat(<<Star(ColonWs), Grp(1, Plus(NumC)), Star(WS), Lit(<<"Won">>)>>)

price_patterns ==
    << Cat(<<Lit(<<"Choe","Jeo">>), Opt(Lit(<<"Ip","Chal">>)), Lit(<<"Ga">>),
             Opt(Lit(<<"Gyeok">>)), AmountTail>>),
       Cat(<<Lit(<<"Mae","Gak">>), Opt(Lit(<<"Ye","Jeong">>)), Lit(<<"Ga">>),
             Opt(Lit(<<"Gyeok">>)), AmountTail>>),
       Cat(<<Lit(<<"Gam","Jeong","Ga">>), Opt(Lit(<<"Gyeok">>)), AmountTail>>),
       Cat(<<Ch({"Geum", "WonSign"}), Star(WS), Grp(1, Plus(NumC)), Star(WS),
             Lit(<<"Won">>)>>),
       Cat(<<Grp(1, Cat(<<D, Opt(Cat(<<D, Opt(D)>>)),
                          Plus(Cat(<<Lit(<<",">>), D, D, D>>))>>)),
             Star(WS), Lit(<<"Won">>)>>) >>

\* pct is the source's test  '%' in pattern or (full-width %) in pattern
deposit_patterns ==
    << [re |-> Cat(<<Lit(<<"Bo","Jeung","Geum">>), AmountTail>>), pct |-> FALSE],
       [re |-> Cat(<<Lit(<<"Ip","Chal","Bo","Jeung","Geum">>), AmountTail>>),
        pct |-> FALSE],
       [re |-> Cat(<<Lit(<<"Bo","Jeung","Geum">>), Star(ColonWs),
                     Lit(<<"Choe","Jeo">>), Opt(Lit(<<"Ip","Chal">>)),
                     Lit(<<"Ga">>), Opt(Lit(<<"Gyeok">>)), Opt(Lit(<<"Ui">>)),
                     Star(WS), Grp(1, Plus(D)), Pct>>), pct |-> TRUE],
       [re |-> Cat(<<Lit(<<"Bo","Jeung","Geum">>), Star(ColonWs),
                     Grp(1, Plus(D)), Pct>>), pct |-> TRUE] >>

location_addr_patterns ==
    << Cat(<<Lit(<<"So","Jae","Ji">>), Star(ColonWs), Grp(1, Plus(NotCh({"\n"})))>>),
       Cat(<<Lit(<<"So","Jae">>), Star(ColonWs), Grp(1, Plus(NotCh({"\n"})))>>),
       Cat(<<Lit(<<"Ju","So">>), Star(ColonWs), Grp(1, Plus(NotCh({"\n"})))>>),
       Cat(<<Lit(<<"Mul","Geon">>), Opt(Lit(<<"Ui">>)), Star(WS),
             Lit(<<"Pyo","Si">>), Star(ColonWs), Grp(1, Plus(NotCh({"\n"})))>>) >>

area_patterns ==
    << Cat(<<Lit(<<"Myeon","Jeok">>), Star(ColonWs), Grp(1, Plus(NumCD)), Star(WS),
             Alt(<<Lit(<<"Sqm">>), Lit(<<"m","2">>), Lit(<<"Je","Gop","Mi","Teo">>),
                   Lit(<<"Pyeong">>)>>)>>),
       Cat(<<Grp(1, Plus(NumCD)), Star(WS), Alt(<<Lit(<<"Sqm">>), Lit(<<"m","2">>)>>)>>),
       Cat(<<Grp(1, Plus(NumCD)), Star(WS), Lit(<<"Pyeong">>)>>) >>

payment_patterns ==
    << Cat(<<Lit(<<"Jan","Geum">>), Star(NotCh({"\n"})), Lit(<<"Gi","Han">>),
             Star(ColonWs), Grp(1, DateCore)>>),
       Cat(<<Lit(<<"Dae","Geum">>), Star(NotCh({"\n"})), Lit(<<"Nap","Bu">>),
             Star(NotCh({"\n"})), Lit(<<"Gi","Han">>), Star(ColonWs),
             Grp(1, DateCore)>>) >>

LocCap == 100
AddrCap == 200
ContentCap == 2000

\* for pattern in patterns: match = re.search(pattern, content); if match: ... break
\* The index of the first pattern of the list that matches and its match, or None.
RECURSIVE FirstMatchFrom(_, _, _)
FirstMatchFrom(res, content, i) ==
    IF i > Len(res) THEN None
    ELSE LET m == Search(res[i], content)
         IN  IF m # None THEN Some([idx |-> i, g |-> m[1].g])
             ELSE FirstMatchFrom(res, content, i + 1)

\* FirstMatch choosing, among the patterns that match, the one whose match
\* ends first in the text (the lowest index among equals)
FirstMatch_Leftmost(res, content) ==
    LET hit == {i \in 1..Len(res) : Search(res[i], content) # None}
    IN  IF hit = {} THEN None
        ELSE LET best == CHOOSE i \in hit : \A j \in hit :
                            \/ Search(res[i], content)[1].pos < Search(res[j], content)[1].pos
                            \/ /\ Search(res[i], content)[1].pos = Search(res[j], content)[1].pos
                               /\ i <= j
             IN  Some([idx |-> best, g |-> Search(res[best], content)[1].g])

FirstMatch(res, content) == FirstMatchFrom(res, content, 1)

\* StrField with the unmatched field given as the empty string
StrField_EmptyDefault(res, content) ==
    LET f == FirstMatch(res, content)
    IN  IF f = None THEN Some(<< >>) ELSE Some(Strip(f[1].g[1]))

\* match.group(1).strip() of the first matching pattern, or None
StrField(res, content) ==
    LET f == FirstMatch(res, content)
    IN  IF f = None THEN None ELSE Some(Strip(f[1].g[1]))

\* CappedField without the slice
CappedField_NoCap(res, content, cap) == StrField(res, content)

\* match.group(1).strip()[:cap] of the first matching pattern, or None
CappedField(res, content, cap) ==
    LET f == StrField(res, content)
    IN  IF f = None THEN None ELSE Some(Take(f[1], cap))

\* minimum_price_of going on to the later patterns when the matched text
\* does not parse
RECURSIVE minimum_price_of_KeepLooking_From(_, _)
minimum_price_of_KeepLooking_From(content, i) ==
    IF i > Len(price_patterns) THEN None
    ELSE LET m == Search(price_patterns[i], content)
             v == IF m = None THEN None ELSE ParseInt(RemoveChar(m[1].g[1], ","))
         IN  IF v # None THEN v ELSE minimum_price_of_KeepLooking_From(content, i + 1)

minimum_price_of_KeepLooking(content) == minimum_price_of_KeepLooking_From(content, 1)

\* price_str = match.group(1).replace(',', ''); try: int(price_str) except: pass; break
minimum_price_of(content) ==
    LET f == FirstMatch(price_patterns, content)
    IN  IF f = None THEN None ELSE ParseInt(RemoveChar(f[1].g[1], ","))

DepositRes == [i \in 1..Len(deposit_patterns) |-> deposit_patterns[i].re]

\* the deposit loop split in two loops, one over the amount patterns and one
\* over the percentage patterns, each filling its own field
deposit_of_TwoLoops(content) ==
    LET amounts == SelectSeq(deposit_patterns, LAMBDA p : ~p.pct)
        rates   == SelectSeq(deposit_patterns, LAMBDA p : p.pct)
        a == FirstMatch([i \in 1..Len(amounts) |-> amounts[i].re], content)
        r == FirstMatch([i \in 1..Len(rates) |-> rates[i].re], content)
    IN  [deposit      |-> IF a = None THEN None
                          ELSE ParseInt(RemoveChar(a[1].g[1], ",")),
         deposit_rate |-> IF r = None THEN None
                          ELSE Some(RemoveChar(r[1].g[1], ",") \o <<"%">>)]

\* the deposit loop: [deposit, deposit_rate]
deposit_of(content) ==
    LET f == FirstMatch(DepositRes, content)
    IN  IF f = None THEN [deposit |-> None, deposit_rate |-> None]
        ELSE LET value == RemoveChar(f[1].g[1], ",")
             IN  IF deposit_patterns[f[1].idx].pct
                 THEN [deposit |-> None, deposit_rate |-> Some(value \o <<"%">>)]
                 ELSE [deposit |-> ParseInt(value), deposit_rate |-> None]

EmptyBidInfo ==
    [bid_date |-> None, bid_location |-> None, minimum_price |-> None,
     deposit |-> None, deposit_rate |-> None, payment_deadline |-> None,
     property_location |-> None, area |-> None]

extract_bid_info(content) ==
    IF content = << >> THEN EmptyBidInfo
    ELSE LET dep == deposit_of(content)
         IN  [bid_date          |-> StrField(date_patterns, content),
              bid_location      |-> CappedField(location_patterns, content, LocCap),
              minimum_price     |-> minimum_price_of(content),
              deposit           |-> dep.deposit,
              deposit_rate      |-> dep.deposit_rate,
              payment_deadline  |-> StrField(payment_patterns, content),
              property_location |-> CappedField(location_addr_patterns, content, AddrCap),
              area              |-> StrField(area_patterns, content)]

\* The function as its callers run it, one statement group at a time.  A
\* caller is at "check" (if not content), at one of the seven pattern loops,
\* at "return", or "done".
NextPc(pc, content) ==
    CASE pc = "check"    -> IF content = << >> THEN "return" ELSE "date"
      [] pc = "date"     -> "location"
      [] pc = "location" -> "price"
      [] pc = "price"    -> "deposit"
      [] pc = "deposit"  -> "addr"
      [] pc = "addr"     -> "area"
      [] pc = "area"     -> "payment"
      [] pc = "payment"  -> "return"
      [] pc = "return"   -> "done"

\* info[key] = value inside "if match": an absent value leaves info as it is
SetField(info, key, value) ==
    IF value = None THEN info ELSE [info EXCEPT ![key] = value]

\* the effect of the statement group at pc on the caller's info
StepInfo(pc, content, info) ==
    CASE pc = "date"     -> SetField(info, "bid_date", StrField(date_patterns, content))
      [] pc = "location" -> SetField(info, "bid_location",
                                     CappedField(location_patterns, content, LocCap))
      [] pc = "price"    -> SetField(info, "minimum_price", minimum_price_of(content))
      [] pc = "deposit"  -> SetField(SetField(info, "deposit", deposit_of(content).deposit),
                                     "deposit_rate", deposit_of(content).deposit_rate)
      [] pc = "addr"     -> SetField(info, "property_location",
                                     CappedField(location_addr_patterns, content, AddrCap))
      [] pc = "area"     -> SetField(info, "area", StrField(area_patterns, content))
      [] pc = "payment"  -> SetField(info, "payment_deadline",
                                     StrField(payment_patterns, content))
      [] OTHER           -> info

\* InfoSlot with one dictionary shared by every call (a module-level info)
InfoSlot_Shared(p) == 1

\* the dictionary caller p reads and writes: info is a local of the call,
\* created anew by each call
InfoSlot(p) == p

(***************************************************************************)
(* format_price                                                            *)
(***************************************************************************)
\* format_price with the 10,000 threshold tested by > instead of >=
format_price_StrictMan(price) ==
    IF price = None THEN None
    ELSE LET v == price[1]
         IN  IF v.hi >= 1
             THEN LET eok == v.hi
                      man == v.lo \div Man
                  IN  IF man > 0
                      THEN Some(Dec(eok) \o <<"Eok", " ">> \o Commas(man) \o <<"Man", "Won">>)
                      ELSE Some(Dec(eok) \o <<"Eok", "Won">>)
             ELSE IF v.lo > Man
             THEN Some(Commas(v.lo \div Man) \o <<"Man", "Won">>)
             ELSE Some(Commas(v.lo) \o <<"Won">>)

\* price is None or Some([hi, lo]); price >= 100000000 is hi >= 1,
\* price // 100000000 is hi and price % 100000000 is lo.
format_price(price) ==
    IF price = None THEN None
    ELSE LET v == price[1]
         IN  IF v.hi >= 1
             THEN LET eok == v.hi
                      man == v.lo \div Man
                  IN  IF man > 0
                      THEN Some(Dec(eok) \o <<"Eok", " ">> \o Commas(man) \o <<"Man", "Won">>)
                      ELSE Some(Dec(eok) \o <<"Eok", "Won">>)
             ELSE IF v.lo >= Man
             THEN Some(Commas(v.lo \div Man) \o <<"Man", "Won">>)
             ELSE Some(Commas(v.lo) \o <<"Won">>)

(***************************************************************************)
(* Documents                                                               *)
(*                                                                         *)
(* A fetch is [kind |-> "error"] (session.get raised) or                   *)
(* [kind |-> "http", status |-> n, doc |-> d].  An element's text is the   *)
(* sequence of its text nodes.  A link is [href, text] with href None when *)
(* the <a> carries no href attribute.                                      *)
(*   listing doc : [tables: sequence of [hor, tbody]], hor = the table has *)
(*                 class tableHor, tbody = None or Some(rows);             *)
(*   row         : [cells, raises], cells a sequence of [text, link],      *)
(*                 link = None or Some(link); raises = handling the row    *)
(*                 raises an Exception inside the per-row try block;       *)
(*   detail doc  : [h3tit, h2, view_cont, content] each None or Some(text) *)
(*                 of the first such element, and links, every <a> in      *)
(*                 document order.                                         *)
(***************************************************************************)
\* Tag.get_text(strip=True): every text node stripped, the empty ones dropped
GetTextStrip(nodes) == Flatten([i \in 1..Len(nodes) |-> Strip(nodes[i])])

base_url == <<"https://www.scourt.go.kr">>

\* r'seq_id=(\d+)'
seq_id_re == Cat(<<Lit(<<"s","e","q","_","i","d","=">>), Grp(1, Plus(D))>>)

\* the body of the per-row try block for a row that raises nothing:
\* None when the row is skipped by a continue, else the notice appended
ParseRow(row) ==
    LET cols == row.cells
    IN  IF Len(cols) < 5 THEN None
        ELSE LET title_link == cols[4].link
             IN  IF title_link = None THEN None
                 ELSE LET title == GetTextStrip(title_link[1].text)
                          href  == IF title_link[1].href = None THEN << >>
                                   ELSE title_link[1].href[1]
                          match == IF href # << >> THEN Search(seq_id_re, href)
                                   ELSE None
                      IN  Some([num        |-> GetTextStrip(cols[1].text),
                                court      |-> GetTextStrip(cols[2].text),
                                debtor     |-> GetTextStrip(cols[3].text),
                                title      |-> title,
                                detail_id  |-> IF match # None THEN Some(match[1].g[1])
                                               ELSE None,
                                views      |-> IF Len(cols) > 4
                                               THEN GetTextStrip(cols[5].text)
                                               ELSE <<"0">>,
                                category   |-> classify_category(title, << >>),
                                detail_url |-> IF href # << >>
                                               THEN Some(base_url \o href)
                                               ELSE None])

\* ParseRow with the missing identifier treated as a reason to skip the row
ParseRow_SkipNoId(row) ==
    LET n == ParseRow(row)
    IN  IF n # None /\ n[1].detail_id = None THEN None ELSE n

\* ParseRow with the missing title link not checked: the row is emitted
\* with the title cell's own text
ParseRow_NoLinkCheck(row) ==
    IF Len(row.cells) >= 5 /\ row.cells[4].link = None
    THEN Some([num        |-> GetTextStrip(row.cells[1].text),
               court      |-> GetTextStrip(row.cells[2].text),
               debtor     |-> GetTextStrip(row.cells[3].text),
               title      |-> GetTextStrip(row.cells[4].text),
               detail_id  |-> None,
               views      |-> GetTextStrip(row.cells[5].text),
               category   |-> classify_category(GetTextStrip(row.cells[4].text), << >>),
               detail_url |-> None])
    ELSE ParseRow(row)

\* the notice of a row, through the parser in use
RowNotice(row) == ParseRow(row)

\* RowStep with the except clause dropping what the page has yielded so far
RowStep_Abort(notices, row) ==
    IF row.raises THEN << >>
    ELSE LET n == RowNotice(row)
         IN  IF n = None THEN notices ELSE Append(notices, n[1])

\* one iteration of the row loop: an exception is caught by the per-row
\* except clause, logged, and the loop continues with the next row
RowStep(notices, row) ==
    IF row.raises THEN notices
    ELSE LET n == RowNotice(row)
         IN  IF n = None THEN notices ELSE Append(notices, n[1])

\* rows[:limit] replaced by a loop that goes on until `limit` notices
\* have been appended
RowsExamined_UntilEmitted(rows, limit) ==
    LET Emitted(n) == Cardinality({j \in 1..n : ~rows[j].raises /\ RowNotice(rows[j]) # None})
        enough == {n \in 0..Len(rows) : Emitted(n) >= limit}
    IN  IF enough = {} THEN rows
        ELSE Take(rows, CHOOSE n \in enough : \A m \in enough : n <= m)

\* rows[:limit] with the slice forgotten
RowsExamined_NoLimit(rows, limit) == rows

\* rows[:limit]
RowsExamined(rows, limit) == Take(rows, limit)

RECURSIVE RowLoop(_, _)
RowLoop(notices, rows) ==
    IF rows = << >> THEN notices
    ELSE RowLoop(RowStep(notices, Head(rows)), Tail(rows))

\* FindTable preferring a table that has a body
FindTable_WithBody(doc) ==
    LET has == {i \in 1..Len(doc.tables) : doc.tables[i].tbody # None}
    IN  IF has # {} THEN Some(doc.tables[CHOOSE i \in has : \A j \in has : i <= j])
        ELSE IF doc.tables # << >> THEN Some(doc.tables[1])
        ELSE None

\* soup.find('table', {'class': 'tableHor'}) or soup.find('table')
FindTable(doc) ==
    LET hor == {i \in 1..Len(doc.tables) : doc.tables[i].hor}
    IN  IF hor # {} THEN Some(doc.tables[CHOOSE i \in hor : \A j \in hor : i <= j])
        ELSE IF doc.tables # << >> THEN Some(doc.tables[1])
        ELSE None

get_notice_list(resp, limit) ==
    IF resp.kind = "error" THEN << >>
    ELSE IF resp.status # 200 THEN << >>
    ELSE LET table == FindTable(resp.doc)
         IN  IF table = None THEN << >>
             ELSE IF table[1].tbody = None THEN << >>
             ELSE RowLoop(<< >>, RowsExamined(table[1].tbody[1], limit))

\* r"download\('([^']+)'\s*,\s*'([^']+)'\)"
download_re ==
    Cat(<<Lit(<<"d","o","w","n","l","o","a","d","(","'">>),
          Grp(1, Plus(NotCh({"'"}))), Lit(<<"'">>), Star(WS), Lit(<<",">>),
          Star(WS), Lit(<<"'">>), Grp(2, Plus(NotCh({"'"}))), Lit(<<"'", ")">>)>>)

\* AttachStep without the test of the link's visible text
AttachStep_NoTextCheck(attachments, link) ==
    LET match == Search(download_re, link.href[1])
    IN  IF match = None THEN attachments
        ELSE Append(attachments,
                    [filename    |-> match[1].g[2],
                     stored_name |-> match[1].g[1],
                     type        |-> IF EndsWith(Lower(match[1].g[2]), <<".","p","d","f">>)
                                     THEN "pdf" ELSE "other"])

\* one iteration of the attachment loop
AttachStep(attachments, link) ==
    LET href == link.href[1]
        text == GetTextStrip(link.text)
    IN  IF IsSubstr(<<"d","o","w","n","l","o","a","d","(">>, href) /\ text # << >>
        THEN LET match == Search(download_re, href)
             IN  IF match = None THEN attachments
                 ELSE LET stored_filename   == match[1].g[1]
                          original_filename == match[1].g[2]
                      IN  Append(attachments,
                                 [filename    |-> original_filename,
                                  stored_name |-> stored_filename,
                                  type        |-> IF EndsWith(Lower(original_filename),
                                                              <<".","p","d","f">>)
                                                  THEN "pdf" ELSE "other"])
        ELSE attachments

RECURSIVE AttachLoop(_, _)
AttachLoop(attachments, links) ==
    IF links = << >> THEN attachments
    ELSE AttachLoop(AttachStep(attachments, Head(links)), Tail(links))

\* soup.find_all('a', href=True)
AllLinks(doc) == SelectSeq(doc.links, LAMBDA l : l.href # None)

\* x or y  for two element lookups: a found Tag is always truthy
OrElse(a, b) == IF a # None THEN a ELSE b

\* DetailTitle without the fall-back to the generic heading
DetailTitle_NoH2(doc) ==
    IF doc.h3tit # None THEN GetTextStrip(doc.h3tit[1]) ELSE <<"Unknown">>

\* the title of a fetched detail document
DetailTitle(doc) ==
    LET title_elem == OrElse(doc.h3tit, doc.h2)
    IN  IF title_elem # None THEN GetTextStrip(title_elem[1]) ELSE <<"Unknown">>

\* the full content of a fetched detail document
DetailContent(doc) ==
    LET content_elem == OrElse(doc.view_cont, doc.content)
    IN  IF content_elem # None THEN GetTextStrip(content_elem[1]) ELSE << >>

\* FetchFailed without the test of the status code
FetchFailed_ErrorOnly(resp) == resp.kind = "error"

\* session.get raised (caught by the outer except), or the status is not 200
FetchFailed(resp) == resp.kind = "error" \/ resp.status # 200

\* the bid_info of the returned record: the extracted fields and the two
\* formatted amounts
BidInfoView(bid_info) ==
    [bid_date          |-> bid_info.bid_date,
     bid_location      |-> bid_info.bid_location,
     minimum_price     |-> bid_info.minimum_price,
     minimum_price_formatted |-> format_price(bid_info.minimum_price),
     deposit           |-> bid_info.deposit,
     deposit_formatted |-> format_price(bid_info.deposit),
     deposit_rate      |-> bid_info.deposit_rate,
     payment_deadline  |-> bid_info.payment_deadline,
     property_location |-> bid_info.property_location,
     area              |-> bid_info.area]

\* DetailRecord with the category and the bid info taken from the stored
\* (cut) content
DetailRecord_FromStored(detail_id, title, full_content, attachments) ==
    [id       |-> detail_id,
     title    |-> title,
     category |-> classify_category(title, Take(full_content, ContentCap)),
     content  |-> Take(full_content, ContentCap),
     bid_info |-> BidInfoView(extract_bid_info(Take(full_content, ContentCap))),
     attachments      |-> attachments,
     attachment_count |-> Len(attachments)]

\* the returned record; scraped_at (the wall-clock time) is left out
DetailRecord(detail_id, title, full_content, attachments) ==
    [id       |-> detail_id,
     title    |-> title,
     category |-> classify_category(title, full_content),
     content  |-> Take(full_content, ContentCap),
     bid_info |-> BidInfoView(extract_bid_info(full_content)),
     attachments      |-> attachments,
     attachment_count |-> Len(attachments)]

\* None, or Some(record)
get_notice_detail(resp, detail_id) ==
    IF FetchFailed(resp) THEN None
    ELSE Some(DetailRecord(detail_id, DetailTitle(resp.doc), DetailContent(resp.doc),
                           AttachLoop(<< >>, AllLinks(resp.doc))))

\* if not detail: raise HTTPException(status_code=404, ...)
ApiResponse(detail) ==
    IF detail = None
    THEN [status_code |-> 404, detail |-> detail]
    ELSE [status_code |-> 200, detail |-> detail]

\* GET /api/notices/{detail_id}
api_get_notice_detail(resp, detail_id) ==
    ApiResponse(get_notice_detail(resp, detail_id))

(***************************************************************************)
(* /api/stats and /api/search                                              *)
(*                                                                         *)
(* fetches[p] is what the fetch of listing page p yields.                  *)
(***************************************************************************)
\* limit=10 of the two aggregating endpoints
PageLimit == 10

\* Aggregate with the loop left at the first page that yields nothing
RECURSIVE Aggregate_StopAtEmpty(_, _, _, _)
Aggregate_StopAtEmpty(all_notices, fetches, page, pages) ==
    IF page > pages THEN all_notices
    ELSE LET notices == get_notice_list(fetches[page], PageLimit)
         IN  IF notices # << >>
             THEN Aggregate_StopAtEmpty(all_notices \o notices, fetches, page + 1, pages)
             ELSE all_notices

\* for page in range(page, pages + 1): notices = get_notice_list(page, 10);
\*     if notices: all_notices.extend(notices)
RECURSIVE Aggregate(_, _, _, _)
Aggregate(all_notices, fetches, page, pages) ==
    IF page > pages THEN all_notices
    ELSE LET notices == get_notice_list(fetches[page], PageLimit)
         IN  Aggregate(IF notices # << >> THEN all_notices \o notices ELSE all_notices,
                       fetches, page + 1, pages)

\* the number of notices whose field has the value
CountOf(notices, field, value) ==
    Cardinality({i \in 1..Len(notices) : notices[i][field] = value})

\* court_stats: a count for every court that occurs
CourtStats(notices) ==
    [c \in {notices[i].court : i \in 1..Len(notices)} |-> CountOf(notices, "court", c)]

\* category_stats: a count for each of the four labels
CategoryStats(notices) ==
    [c \in {"RealEstate", "Movable", "Bond", "Other"} |-> CountOf(notices, "category", c)]

\* the response of /api/stats built from the aggregate
StatsResponse(all_notices, pages) ==
    [total_count    |-> Len(all_notices),
     pages_scraped  |-> pages,
     court_stats    |-> CourtStats(all_notices),
     category_stats |-> CategoryStats(all_notices)]

\* GET /api/stats
get_stats(fetches, pages) == StatsResponse(Aggregate(<< >>, fetches, 1, pages), pages)

\* keyword_lower in title.lower() or in court.lower() or in debtor.lower()
KeywordMatches(n, keyword_lower) ==
    \/ IsSubstr(keyword_lower, Lower(n.title))
    \/ IsSubstr(keyword_lower, Lower(n.court))
    \/ IsSubstr(keyword_lower, Lower(n.debtor))

\* the response of /api/search built from the aggregate; category is None
\* or Some(label)
SearchResponse(all_notices, keyword, category) ==
    LET keyword_lower == Lower(keyword)
        filtered == SelectSeq(all_notices, LAMBDA n : KeywordMatches(n, keyword_lower))
        chosen   == IF category # None
                    THEN SelectSeq(filtered, LAMBDA n : n.category = category[1])
                    ELSE filtered
    IN  [keyword        |-> keyword,
         category       |-> category,
         total_searched |-> Len(all_notices),
         match_count    |-> Len(chosen),
         notices        |-> chosen]

\* GET /api/search
search_notices(fetches, pages, keyword, category) ==
    SearchResponse(Aggregate(<< >>, fetches, 1, pages), keyword, category)

(***************************************************************************)
(* Inputs                                                                  *)
(***************************************************************************)
\* every concatenation of at most n strings of the set W
RECURSIVE Phrases(_, _)
Phrases(W, n) ==
    IF n = 0 THEN {<< >>}
    ELSE LET P == Phrases(W, n - 1)
         IN  P \cup {p \o w : p \in P, w \in W}

\* every sequence of at most n elements of the set S
RECURSIVE SeqsUpTo(_, _)
SeqsUpTo(S, n) ==
    IF n = 0 THEN {<< >>}
    ELSE LET P == SeqsUpTo(S, n - 1)
         IN  P \cup {Append(p, x) : p \in P, x \in S}

MaxTitleWords == 2
MaxContentWords == 1

\* words whose concatenations make and break keywords of every group
CatWords ==
    { <<"Bu">>, <<"Dong","San">>, <<"Mul","Pum">>, <<"Dae","Geum">>,
      <<"Chae","Gwon">>, <<"Teuk","Heo">>, <<"X">> }

MaxFrags == 4

\* pieces of a notice text around the deposit
BidFrags ==
    { <<"Bo","Jeung","Geum">>,                 \* the deposit label
      <<"Ip","Chal">>,                         \* "bid"
      <<":", " ">>,
      <<"5", ",", "0", "0", "0", "Won">>,      \* an amount
      <<",", "Won">>,                          \* an amount without digits
      <<"1", "0", "%">>,                       \* a rate
      <<"Choe","Jeo","Ga","Ui"," ","2","FwPct">> }  \* "of the minimum price 2%"

MaxFieldFrags == 2

\* lines of a notice text, two for each field of the bid info (the address
\* and the area share their lines): the first of each pair matches a later
\* pattern of the field's list, the second an earlier one
FieldFrags ==
    { <<"Mae","Gak","Gi","Il"," ","2","0","2","4","-","1","-","2","\n">>,
      <<"Ip","Chal","Il","2","0","2","5","Nyeon"," ","3","Wol","4","Il","\n">>,
      <<"Jang","So",":","A","Beop","Won"," ","1",",","x","\n">>,
      <<"Ip","Chal","Jang","So",":"," ","Bon","Gwan"," ","\n">>,
      <<"Gam","Jeong","Ga"," ","9","0","Won","\n">>,
      <<"Choe","Jeo","Ga",":","1",",","0","0","0"," ","Won","\n">>,
      <<"Ju","So",":"," ","A"," ","\n","3",".","5"," ","Pyeong","\n">>,
      <<"So","Jae","Ji",":","B","\n","Myeon","Jeok"," ","8","4","Sqm","\n">>,
      <<"Dae","Geum"," ","Nap","Bu","Gi","Han","2","0","2","4","/","7","/","8","\n">>,
      <<"Jan","Geum","Gi","Han",":"," ","2","0","2","4",".","5",".","6","\n">>,
      <<"Bo","Jeung","Geum",":","1","0","%","\n">> }

MaxCallers == 2

\* the texts of the interleaved callers
CallerContents ==
    { << >>,
      <<"Ip","Chal","Il"," ","2","0","2","5","Nyeon"," ","3","Wol"," ","4","Il","\n",
        "Choe","Jeo","Ga",":"," ","1",",","0","0","0"," ","Won","\n",
        "Bo","Jeung","Geum",":"," ","1","0","%","\n",
        "Ju","So",":"," ","A"," ","\n">>,
      <<"Ip","Chal","Jang","So",":"," ","Bon","Gwan"," ","\n",
        "Gam","Jeong","Ga"," ","9",",","0","0","0","Won","\n",
        "Bo","Jeung","Geum"," ","5",",","0","0","0","Won","\n",
        "Myeon","Jeok"," ","8","4","Sqm","\n",
        "Jan","Geum"," ","Gi","Han",":"," ","2","0","2","4",".","5",".","6","\n">> }

\* hi (units of 10^8) and lo (below 10^8) of the prices formatted
PriceHi == {0, 1, 2, 12, 999, 1000, 1234567}
PriceLo == {0, 1, 999, 1000, 9999, 10000, 10001, 19999, 99999, 100000,
            1234567, 9999999, 10000000, 50000000, 99990000, 99999999}

MaxRows == 3
MaxLimit == 3
MaxLinks == 2

Cell(text) == [text |-> <<text>>, link |-> None]
LinkCell(text, href) == [text |-> << >>, link |-> Some([text |-> <<text>>, href |-> href])]

\* a row of n cells: number, court, debtor, title cell, views, one more
MkRow(num, title_cell, views, n, raises) ==
    [cells  |-> Take(<<Cell(<<num>>), Cell(<<"Court">>), Cell(<<"Debtor">>),
                       title_cell, Cell(views), Cell(<<"more">>)>>, n),
     raises |-> raises]

HrefSeq12 == <<"?","s","e","q","_","i","d","=","1","2","&","p","=","3">>
HrefNoId  == <<"?","i","d","=","7">>
HrefNoDig == <<"?","s","e","q","_","i","d","=">>

RowInputs ==
    { MkRow("1", LinkCell(<<" ","Bu","Dong","San"," ">>, Some(HrefSeq12)), <<"7">>, 5, FALSE),
      MkRow("2", LinkCell(<<"Chae","Gwon">>, Some(HrefSeq12)), << >>, 5, FALSE),
      MkRow("3", LinkCell(<<"X">>, Some(HrefNoId)), <<"7">>, 6, FALSE),
      MkRow("4", LinkCell(<<"X">>, Some(HrefNoDig)), <<"7">>, 5, FALSE),
      MkRow("5", LinkCell(<<"X">>, None), <<"7">>, 5, FALSE),
      MkRow("6", LinkCell(<<"X">>, Some(<< >>)), <<"7">>, 5, FALSE),
      MkRow("7", LinkCell(<<"X">>, Some(HrefSeq12)), <<"7">>, 4, FALSE),
      MkRow("8", Cell(<<"X">>), <<"7">>, 5, FALSE),
      MkRow("9", LinkCell(<<"X">>, Some(HrefSeq12)), <<"7">>, 5, TRUE) }

Table(hor, tbody) == [hor |-> hor, tbody |-> tbody]
HttpResp(status, doc) == [kind |-> "http", status |-> status, doc |-> doc]
FetchError == [kind |-> "error"]

DecoyRows == <<MkRow("0", LinkCell(<<"Decoy">>, Some(HrefSeq12)), <<"7">>, 5, FALSE)>>

\* listing fetches: the marked table alone with every row sequence, and the
\* other page shapes with at most one row
ListFetches ==
    { HttpResp(200, [tables |-> <<Table(TRUE, Some(rows))>>]) :
          rows \in SeqsUpTo(RowInputs, MaxRows) }
    \cup UNION { { HttpResp(200, [tables |-> <<Table(FALSE, Some(rows))>>]),
                   HttpResp(200, [tables |-> <<Table(FALSE, Some(DecoyRows)),
                                               Table(TRUE, Some(rows))>>]),
                   HttpResp(200, [tables |-> <<Table(FALSE, Some(rows)),
                                               Table(FALSE, Some(DecoyRows))>>]),
                   HttpResp(200, [tables |-> <<Table(TRUE, None),
                                               Table(FALSE, Some(rows))>>]),
                   HttpResp(200, [tables |-> <<Table(FALSE, None),
                                               Table(FALSE, Some(rows))>>]),
                   HttpResp(404, [tables |-> <<Table(TRUE, Some(rows))>>]),
                   HttpResp(500, [tables |-> <<Table(TRUE, Some(rows))>>]) } :
                 rows \in SeqsUpTo(RowInputs, 1) }
    \cup { HttpResp(200, [tables |-> << >>]), FetchError }

MaxPages == 3

\* what the fetch of one listing page can yield: a failure, an error status,
\* a page without table, a page without rows, a page of three rows one of
\* which is skipped, and a page of one row more than the endpoints' limit
PageFetches ==
    { FetchError,
      HttpResp(404, [tables |-> <<Table(TRUE, Some(DecoyRows))>>]),
      HttpResp(200, [tables |-> << >>]),
      HttpResp(200, [tables |-> <<Table(TRUE, Some(<< >>))>>]),
      HttpResp(200, [tables |-> <<Table(TRUE, Some(
          << MkRow("1", LinkCell(<<"Bu","Dong","San">>, Some(HrefSeq12)), <<"7">>, 5, FALSE),
             MkRow("8", Cell(<<"X">>), <<"7">>, 5, FALSE),
             MkRow("2", LinkCell(<<"Chae","Gwon">>, Some(HrefSeq12)), <<"7">>, 5, FALSE) >>))>>]),
      HttpResp(200, [tables |-> <<Table(TRUE, Some(
          [i \in 1..(PageLimit + 1) |->
              MkRow("3", LinkCell(<<"X">>, Some(HrefNoId)), <<"7">>, 5, FALSE)]))>>]) }

SearchKeywords == { <<"x">>, <<"C","H","A","E">>, <<"Chae">>, <<"Court">> }

Js == <<"j","a","v","a","s","c","r","i","p","t",":">>
Dl == <<"d","o","w","n","l","o","a","d","(">>
Q == <<"'">>
NoticePdf == <<"Gong","Go","Mun",".","p","d","f">>

Link(href, text) == [href |-> href, text |-> <<text>>]

LinkInputs ==
    { Link(Some(Js \o Dl \o Q \o <<"A",".","p","d","f">> \o Q \o <<",">> \o Q
                \o NoticePdf \o Q \o <<")">>), <<"Cheom","Bu">>),
      Link(Some(Dl \o Q \o <<"B">> \o Q \o <<",">> \o Q \o <<"n",".","P","D","F">>
                \o Q \o <<")">>), <<" ","x"," ">>),
      Link(Some(Dl \o Q \o <<"C">> \o Q \o <<" ",","," ">> \o Q
                \o <<"n",".","h","w","p">> \o Q \o <<")">>), <<"x">>),
      Link(Some(Dl \o Q \o <<"D">> \o Q \o <<",">> \o Q \o <<"p","d","f">>
                \o Q \o <<")">>), <<"x">>),
      Link(Some(Dl \o Q \o <<"E">> \o Q \o <<",">> \o Q \o NoticePdf \o Q \o <<")">>),
           <<" ">>),
      Link(Some(Dl \o Q \o <<"F">> \o Q \o <<")">>), <<"x">>),
      Link(Some(Dl \o Q \o Q \o <<",">> \o Q \o NoticePdf \o Q \o <<")">>), <<"x">>),
      Link(Some(<<"v","i","e","w","(">> \o Q \o <<"G">> \o Q \o <<",">> \o Q
                \o NoticePdf \o Q \o <<")">>), <<"x">>),
      Link(Some(<<"D","o","w","n","l","o","a","d","(">> \o Q \o <<"H">> \o Q
                \o <<",">> \o Q \o NoticePdf \o Q \o <<")">>), <<"x">>),
      Link(None, <<"x">>) }

DetailDoc(h3tit, h2, view_cont, content, links) ==
    [h3tit |-> h3tit, h2 |-> h2, view_cont |-> view_cont, content |-> content,
     links |-> links]

H3Inputs == {None, Some(<< >>), Some(<< <<" ","Bu","Dong","San","\n">> >>)}
H2Inputs == {None, Some(<< <<"Teuk","Heo">> >>)}
ViewContInputs ==
    {None, Some(<< >>),
     Some(<< <<" ","Bo","Jeung","Geum",":"," ","5",",","0","0","0","Won"," ">>,
             <<"\n">>, <<"Chae","Gwon"," ">> >>)}
ContentDivInputs == {None, Some(<< <<"Mul","Pum">> >>)}

Excess == 3

\* n times the character c
Run(c, n) == [i \in 1..n |-> c]

\* a notice text longer than every cap: a bid place and an address that
\* overrun their caps by n characters, filler up to the stored length, and
\* after it a real-estate keyword and a deposit rate
LongText(n) ==
    <<"Ip","Chal","Jang","So",":"," ">> \o Run("x", LocCap + n) \o <<"\n">>
    \o <<"So","Jae","Ji",":"," ">> \o Run("y", AddrCap + n) \o <<"\n">>
    \o Run("z", ContentCap) \o <<"\n","Bu","Dong","San","\n">>
    \o <<"Bo","Jeung","Geum",":"," ","1","0","%","\n">>

\* a text whose bid place is exactly as long as its cap
ExactText ==
    <<"Ip","Chal","Jang","So",":"," ">> \o Run("x", LocCap) \o <<"\n", "Chae","Gwon">>

LongDocs ==
    { DetailDoc(Some(<< <<"X">> >>), None, Some(<< LongText(Excess) >>), None, << >>),
      DetailDoc(None, None, None, Some(<< LongText(1), <<" ">>, <<"w">> >>), << >>),
      DetailDoc(Some(<< <<"X">> >>), None, Some(<< ExactText >>), None, << >>) }

\* detail fetches: every combination of present and missing elements with at
\* most one link, one page with every link sequence, and the failed fetches
DetailFetches ==
    { HttpResp(200, DetailDoc(h3, h2, vc, cd, ls)) :
          h3 \in H3Inputs, h2 \in H2Inputs, vc \in ViewContInputs,
          cd \in ContentDivInputs,
          ls \in { << >>, <<Link(Some(Dl \o Q \o <<"B">> \o Q \o <<",">> \o Q
                                     \o <<"n",".","P","D","F">> \o Q \o <<")">>),
                                 <<"x">>) >> } }
    \cup { HttpResp(200, DetailDoc(Some(<< <<"X">> >>), None, Some(<< <<"X">> >>),
                                   None, ls)) :
               ls \in SeqsUpTo(LinkInputs, MaxLinks) }
    \cup { HttpResp(st, DetailDoc(h3, None, vc, None, << >>)) :
               st \in {404, 500, 302}, h3 \in H3Inputs, vc \in ViewContInputs }
    \cup { HttpResp(200, d) : d \in LongDocs }
    \cup { FetchError }

(***************************************************************************)
(* The state machine: each action is one call of one operation on inputs   *)
(* drawn from the sets above; call holds the operation and its arguments,  *)
(* ret what it returned.  The operations keep no state between calls, so   *)
(* Done takes the caller back to the state in which a call can be made.    *)
(***************************************************************************)
Idle == call.fn = "none"

Init ==
    /\ call = [fn |-> "none"]
    /\ ret = None

Done ==
    /\ ~Idle
    /\ call.fn = "callers" => \A p \in DOMAIN call.pc : call.pc[p] = "done"
    /\ call' = [fn |-> "none"]
    /\ ret' = None

Classify ==
    /\ Idle
    /\ \E title \in Phrases(CatWords, MaxTitleWords),
          content \in Phrases(CatWords, MaxContentWords) :
         /\ call' = [fn |-> "classify_category", title |-> title, content |-> content]
         /\ ret' = classify_category(title, content)

ExtractBidInfo ==
    /\ Idle
    /\ \E content \in Phrases(BidFrags, MaxFrags) :
         /\ call' = [fn |-> "extract_bid_info", content |-> content]
         /\ ret' = extract_bid_info(content)

\* extract_bid_info on texts that touch every field
ExtractFields ==
    /\ Idle
    /\ \E content \in Phrases(FieldFrags, MaxFieldFrags) :
         /\ call' = [fn |-> "extract_bid_info", content |-> content]
         /\ ret' = extract_bid_info(content)

\* several callers enter extract_bid_info, each with its own content
StartCallers ==
    /\ Idle
    /\ \E cs \in [1..MaxCallers -> CallerContents] :
         call' = [fn      |-> "callers",
                  content |-> cs,
                  pc      |-> [p \in 1..MaxCallers |-> "check"],
                  info    |-> [p \in 1..MaxCallers |-> EmptyBidInfo]]
    /\ ret' = [p \in 1..MaxCallers |-> None]

\* caller p runs its next statement group
CallerStep(p) ==
    /\ call.fn = "callers"
    /\ call.pc[p] # "done"
    /\ call' = [call EXCEPT
                   !.pc[p] = NextPc(@, call.content[p]),
                   !.info[InfoSlot(p)] = StepInfo(call.pc[p], call.content[p], @)]
    /\ ret' = IF call.pc[p] = "return"
              THEN [ret EXCEPT ![p] = Some(call.info[InfoSlot(p)])]
              ELSE ret

GetStats ==
    /\ Idle
    /\ \E pages \in 1..MaxPages :
         \E fetches \in [1..pages -> PageFetches] :
             /\ call' = [fn |-> "get_stats", fetches |-> fetches, pages |-> pages]
             /\ ret' = get_stats(fetches, pages)

SearchNotices ==
    /\ Idle
    /\ \E pages \in 1..MaxPages :
         \E fetches \in [1..pages -> PageFetches], keyword \in SearchKeywords,
            category \in {None, Some("Bond")} :
             /\ call' = [fn |-> "search_notices", fetches |-> fetches, pages |-> pages,
                         keyword |-> keyword, category |-> category]
             /\ ret' = search_notices(fetches, pages, keyword, category)

FormatPrice ==
    /\ Idle
    /\ \E price \in {None} \cup {Some(Big(h, l)) : h \in PriceHi, l \in PriceLo} :
         /\ call' = [fn |-> "format_price", price |-> price]
         /\ ret' = format_price(price)

GetNoticeList ==
    /\ Idle
    /\ \E resp \in ListFetches, limit \in 1..MaxLimit :
         /\ call' = [fn |-> "get_notice_list", resp |-> resp, limit |-> limit]
         /\ ret' = get_notice_list(resp, limit)

ApiNoticeDetail ==
    /\ Idle
    /\ \E resp \in DetailFetches, detail_id \in {<<"1","2">>} :
         /\ call' = [fn |-> "get_notice_detail", resp |-> resp, detail_id |-> detail_id]
         /\ ret' = api_get_notice_detail(resp, detail_id)

NextCategory == Classify \/ Done
NextBid == ExtractBidInfo \/ Done
NextPrice == FormatPrice \/ Done
NextFields == ExtractFields \/ Done
NextPages == GetStats \/ SearchNotices \/ Done
NextCallers == StartCallers \/ (\E p \in 1..MaxCallers : CallerStep(p)) \/ Done

NextList == GetNoticeList \/ Done
NextDetail == ApiNoticeDetail \/ Done
Next == Classify \/ ExtractBidInfo \/ ExtractFields \/ FormatPrice \/ GetNoticeList
           \/ ApiNoticeDetail \/ GetStats \/ SearchNotices \/ StartCallers
           \/ (\E p \in 1..MaxCallers : CallerStep(p)) \/ Done

Spec == Init /\ [][Next]_vars
SpecList == Init /\ [][NextList]_vars
SpecDetail == Init /\ [][NextDetail]_vars
SpecCategory == Init /\ [][NextCategory]_vars
SpecBid == Init /\ [][NextBid]_vars
SpecPrice == Init /\ [][NextPrice]_vars
SpecFields == Init /\ [][NextFields]_vars
SpecPages == Init /\ [][NextPages]_vars
SpecCallers == Init /\ [][NextCallers]_vars

(***************************************************************************)
(* Claims about get_notice_list (specification SpecList)                   *)
(***************************************************************************)
IsListCall == call.fn = "get_notice_list"

\* the body rows of the table the parser reads (none when there is no table)
PageRows ==
    IF call.resp.kind = "http" /\ call.resp.status = 200
       /\ FindTable(call.resp.doc) # None
       /\ FindTable(call.resp.doc)[1].tbody # None
    THEN FindTable(call.resp.doc)[1].tbody[1]
    ELSE << >>

\* the positions of the rows the loop examines
Examined == {j \in 1..Len(PageRows) : j <= call.limit}

\* the row has at least 5 cells and a hyperlink in its title (fourth) cell
WellFormed(row) == Len(row.cells) >= 5 /\ row.cells[4].link # None

RowNum(row) == GetTextStrip(row.cells[1].text)

\* the positions whose rows are emitted, in increasing order
RECURSIVE Ascending(_)
Ascending(S) ==
    IF S = {} THEN << >>
    ELSE LET m == CHOOSE x \in S : \A y \in S : x <= y
         IN  <<m>> \o Ascending(S \ {m})

EmittedPositions ==
    Ascending({j \in Examined : WellFormed(PageRows[j]) /\ ~PageRows[j].raises})

\* C1: get_notice_list returns at most `limit` summaries, and they are the
\* summaries of the emitted source rows in the rows' own order: the i-th
\* summary comes from the i-th emitted row, so nothing is reordered,
\* duplicated or deduplicated.
C1_LimitAndOrder ==
    IsListCall =>
        /\ Len(ret) <= call.limit
        /\ Len(ret) = Len(EmittedPositions)
        /\ \A i \in 1..Len(ret) : ret[i].num = RowNum(PageRows[EmittedPositions[i]])

\* two equal rows are both emitted, and a third row lies beyond the limit
C1_Witness ==
    /\ IsListCall
    /\ Len(PageRows) = 3 /\ call.limit = 2
    /\ Len(ret) = 2 /\ ret[1] = ret[2]

\* C2: every summary comes from an examined row with at least 5 cells and a
\* link in the title cell, and its title is that link's text; a row with
\* fewer than 5 cells or without a title link has no summary.
C2_OnlyLinkedRows ==
    IsListCall =>
        /\ \A i \in 1..Len(ret) :
              \E j \in Examined :
                  /\ WellFormed(PageRows[j])
                  /\ ret[i].num = RowNum(PageRows[j])
                  /\ ret[i].title = GetTextStrip(PageRows[j].cells[4].link[1].text)
        /\ \A j \in 1..Len(PageRows) :
              ~WellFormed(PageRows[j]) =>
                  \A i \in 1..Len(ret) : ret[i].num # RowNum(PageRows[j])

\* a short row and a row without a link are examined beside an emitted row
C2_Witness ==
    /\ IsListCall
    /\ Len(ret) = 1
    /\ \E j \in Examined : Len(PageRows[j].cells) < 5
    /\ \E j \in Examined :
          Len(PageRows[j].cells) >= 5 /\ PageRows[j].cells[4].link = None

\* the digits after the leftmost "seq_id=" that digits follow, or None
SeqIdPrefix == <<"s","e","q","_","i","d","=">>
SeqIdOf(href) ==
    LET P == {p \in 1..Len(href) :
                 /\ p + 7 <= Len(href)
                 /\ SubSeq(href, p, p + 6) = SeqIdPrefix
                 /\ href[p + 7] \in DigitSet}
    IN  IF P = {} THEN None
        ELSE LET p0 == CHOOSE p \in P : \A q \in P : p <= q
                 e  == CHOOSE e \in (p0 + 7)..Len(href) :
                          /\ \A k \in (p0 + 7)..e : href[k] \in DigitSet
                          /\ (e = Len(href) \/ href[e + 1] \notin DigitSet)
             IN  Some(SubSeq(href, p0 + 7, e))

HrefOf(row) ==
    IF row.cells[4].link[1].href = None THEN << >> ELSE row.cells[4].link[1].href[1]

\* C3: an examined row with at least 5 cells and a title link that raises
\* nothing is emitted whether or not its href carries an identifier; its
\* detail_id is the digit string after "seq_id=", absent when the href has
\* no such match or is empty.
C3_DetailId ==
    IsListCall =>
        \A k \in 1..Len(EmittedPositions) :
            /\ k <= Len(ret)
            /\ ret[k].num = RowNum(PageRows[EmittedPositions[k]])
            /\ ret[k].detail_id = SeqIdOf(HrefOf(PageRows[EmittedPositions[k]]))

\* a row with an identifier and rows without one (no seq_id, empty href)
\* are emitted side by side
C3_Witness ==
    /\ IsListCall
    /\ Len(ret) = 3
    /\ ret[1].detail_id = Some(<<"1","2">>)
    /\ ret[2].detail_id = None /\ ret[2].detail_url # None
    /\ ret[3].detail_id = None /\ ret[3].detail_url = None

\* C10: when an examined row raises, only that row is missing: every other
\* well-formed examined row, before and after it, is emitted, and the call
\* returns the list.
C10_OnlyBadRowSkipped ==
    (IsListCall /\ \E j \in Examined : PageRows[j].raises) =>
        \A j \in Examined :
            (WellFormed(PageRows[j]) /\ ~PageRows[j].raises) =>
                \E i \in 1..Len(ret) : ret[i].num = RowNum(PageRows[j])

\* the raising row sits between two well-formed rows, and both are emitted
C10_Witness ==
    /\ IsListCall
    /\ call.limit = 3 /\ Len(PageRows) = 3
    /\ PageRows[2].raises /\ ~PageRows[1].raises /\ ~PageRows[3].raises
    /\ Len(ret) = 2
    /\ ret[1].num = RowNum(PageRows[1]) /\ ret[2].num = RowNum(PageRows[3])

(***************************************************************************)
(* Claims about classify_category (specification SpecCategory)             *)
(***************************************************************************)
IsClassifyCall == call.fn = "classify_category"

\* k occurs in s, character by character
Occurs(k, s) ==
    \E i \in 1..Len(s) :
        /\ i + Len(k) - 1 <= Len(s)
        /\ \A j \in 1..Len(k) : s[i + j - 1] = k[j]

\* some keyword of the group occurs in the lower-cased title + " " + content
GroupHit(kws) ==
    \E n \in 1..Len(kws) :
        Occurs(kws[n], Lower(call.title \o <<" ">> \o call.content))

\* C4: classify_category returns one of the four labels, the label of the
\* first group in the order RealEstate, Movable, Bond, Other(intangible)
\* with a keyword in the text; RealEstate wins over Bond; no keyword at all
\* gives Other.
C4_FirstGroupWins ==
    IsClassifyCall =>
        /\ ret \in {"RealEstate", "Movable", "Bond", "Other"}
        /\ (ret = "RealEstate") = GroupHit(real_estate_keywords)
        /\ (ret = "Movable") =
               (~GroupHit(real_estate_keywords) /\ GroupHit(movable_keywords))
        /\ (ret = "Bond") =
               (/\ ~GroupHit(real_estate_keywords)
                /\ ~GroupHit(movable_keywords)
                /\ GroupHit(bond_keywords))
        /\ (GroupHit(real_estate_keywords) /\ GroupHit(bond_keywords))
               => ret = "RealEstate"

\* a text with a real-estate keyword (made across two words of the title)
\* and a bond keyword is classified RealEstate
C4_Witness ==
    /\ IsClassifyCall
    /\ call.title = <<"Bu","Dong","San">>
    /\ call.content = <<"Chae","Gwon">>
    /\ ret = "RealEstate"

\* the lower-cased text the classifier searches
ClassifiedText == Lower(call.title \o <<" ">> \o call.content)

\* the keyword groups that return a label of their own, in the order tried
KeywordGroups == <<real_estate_keywords, movable_keywords, bond_keywords>>
GroupLabels   == <<"RealEstate", "Movable", "Bond">>

\* keyword n of group g contains a keyword of an earlier group
Shadowed(g, n) ==
    \E h \in 1..(g - 1) : \E m \in 1..Len(KeywordGroups[h]) :
        Occurs(KeywordGroups[h][m], KeywordGroups[g][n])

\* C21: a keyword of a later group that contains a keyword of an earlier
\* group never decides the category: a text with the bond keyword
\* Mul-Pum-Dae-Geum also has the movable keyword Mul-Pum and is classified
\* Movable or RealEstate, never Bond; a text with Bu-Dong-San also has the
\* movable keyword Dong-San and is classified RealEstate; in general a text
\* with a keyword that contains a keyword of an earlier group gets the label
\* of an earlier group.
C21_ShadowedKeyword ==
    IsClassifyCall =>
        /\ Occurs(<<"Mul","Pum","Dae","Geum">>, ClassifiedText) =>
               /\ Occurs(<<"Mul","Pum">>, ClassifiedText)
               /\ ret \in {"Movable", "RealEstate"}
        /\ Occurs(<<"Bu","Dong","San">>, ClassifiedText) =>
               /\ Occurs(<<"Dong","San">>, ClassifiedText)
               /\ ret = "RealEstate"
        /\ \A g \in 2..Len(KeywordGroups) : \A n \in 1..Len(KeywordGroups[g]) :
               (Shadowed(g, n) /\ Occurs(KeywordGroups[g][n], ClassifiedText))
                   => \E h \in 1..(g - 1) : ret = GroupLabels[h]

\* the bond keyword Mul-Pum-Dae-Geum, made of two words of the title, next to
\* another bond keyword and no real-estate keyword: classified Movable
C21_Witness ==
    /\ IsClassifyCall
    /\ call.title = <<"Mul","Pum","Dae","Geum">>
    /\ call.content = <<"Chae","Gwon">>
    /\ Shadowed(3, 7)
    /\ ret = "Movable"

(***************************************************************************)
(* Claims about extract_bid_info (specification SpecBid)                   *)
(***************************************************************************)
IsExtractCall == call.fn = "extract_bid_info"

\* the deposit patterns that match the content somewhere
DepositHits ==
    {i \in 1..Len(deposit_patterns) : Search(deposit_patterns[i].re, call.content) # None}

FirstDepositHit == CHOOSE i \in DepositHits : \A j \in DepositHits : i <= j

\* C5: deposit and deposit_rate are never both populated; the first matching
\* entry of the deposit pattern list decides which of the two can be set
\* (an amount entry: the rate stays absent; a percentage entry: the rate is
\* set and the amount stays absent), and without a match both are absent.
C5_DepositXorRate ==
    IsExtractCall =>
        /\ ret.deposit = None \/ ret.deposit_rate = None
        /\ DepositHits = {} => (ret.deposit = None /\ ret.deposit_rate = None)
        /\ DepositHits # {} =>
              IF deposit_patterns[FirstDepositHit].pct
              THEN ret.deposit = None /\ ret.deposit_rate # None
              ELSE ret.deposit_rate = None

\* the text holds a rate and, after it, an amount: the amount entry comes
\* first in the list, so the amount is set and the rate is not
C5_Witness ==
    /\ IsExtractCall
    /\ DepositHits = {1, 4}
    /\ ret.deposit = Some(Big(0, 5000))
    /\ ret.deposit_rate = None

(***************************************************************************)
(* Claims about format_price (specification SpecPrice)                     *)
(***************************************************************************)
IsFormatCall == call.fn = "format_price"

\* s is n written with a comma before every group of three digits
Grouped(s, n) ==
    /\ RemoveChar(s, ",") = Dec(n)
    /\ \A i \in 1..Len(s) : (s[i] = ",") = ((Len(s) - i + 1) % 4 = 0)

\* s is n written in digits alone
Plain(s, n) == s = Dec(n)

\* the first position of token c in s (0 when absent)
IndexOf(s, c) ==
    IF \E i \in 1..Len(s) : s[i] = c
    THEN CHOOSE i \in 1..Len(s) : s[i] = c /\ \A j \in 1..(i - 1) : s[j] # c
    ELSE 0

\* the formatted string follows the thresholding rule; eokGrouped says
\* whether the hundred-million count carries thousands separators too
Renders(eokGrouped) ==
    IF call.price = None THEN ret = None
    ELSE
      LET e == call.price[1].hi
          r == call.price[1].lo
          m == r \div 10000
          s == ret[1]
          p == IndexOf(s, "Eok")
          EokPart(t) == IF eokGrouped THEN Grouped(t, e) ELSE Plain(t, e)
      IN  /\ ret # None
          /\ IF e >= 1 /\ m > 0
             THEN /\ p > 1 /\ Len(s) >= p + 4
                  /\ EokPart(SubSeq(s, 1, p - 1))
                  /\ s[p + 1] = " "
                  /\ Grouped(SubSeq(s, p + 2, Len(s) - 2), m)
                  /\ SubSeq(s, Len(s) - 1, Len(s)) = <<"Man", "Won">>
             ELSE IF e >= 1
             THEN /\ p > 1 /\ Len(s) = p + 1
                  /\ EokPart(SubSeq(s, 1, p - 1))
                  /\ s[p + 1] = "Won"
             ELSE IF r >= 10000
             THEN /\ Len(s) >= 3
                  /\ Grouped(SubSeq(s, 1, Len(s) - 2), m)
                  /\ SubSeq(s, Len(s) - 1, Len(s)) = <<"Man", "Won">>
             ELSE /\ Len(s) >= 2
                  /\ Grouped(SubSeq(s, 1, Len(s) - 1), r)
                  /\ s[Len(s)] = "Won"

\* the boundary cases: 0, 9999, 10000, 100000000, 150000000
BoundaryCases ==
    /\ call.price = Some(Big(0, 0)) => ret = Some(<<"0", "Won">>)
    /\ call.price = Some(Big(0, 9999)) => ret = Some(<<"9", ",", "9", "9", "9", "Won">>)
    /\ call.price = Some(Big(0, 10000)) => ret = Some(<<"1", "Man", "Won">>)
    /\ call.price = Some(Big(1, 0)) => ret = Some(<<"1", "Eok", "Won">>)
    /\ call.price = Some(Big(1, 50000000)) =>
           ret = Some(<<"1", "Eok", " ", "5", ",", "0", "0", "0", "Man", "Won">>)

\* C6 as stated: every number of the result, the hundred-million count
\* included, carries thousands separators.
C6_AllNumbersSeparated ==
    IsFormatCall => (Renders(TRUE) /\ BoundaryCases)

\* C6 (amended): format_price follows the exact thresholds and boundary
\* cases; the ten-thousand count and the plain amount carry thousands
\* separators, the hundred-million count is written in digits alone.
C6_Thresholds ==
    IsFormatCall => (Renders(FALSE) /\ BoundaryCases)

\* a price of 1000 * 10^8 + 1234567 is formatted "1000(eok) 123(man won)"
C6_Witness ==
    /\ IsFormatCall
    /\ call.price = Some(Big(1000, 1234567))
    /\ ret = Some(<<"1","0","0","0","Eok"," ","1","2","3","Man","Won">>)

(***************************************************************************)
(* Claims about get_notice_detail (specification SpecDetail)               *)
(***************************************************************************)
IsDetailCall == call.fn = "get_notice_detail"

Fetched200 == IsDetailCall /\ call.resp.kind = "http" /\ call.resp.status = 200

\* the first position from i on that holds a quote (0 when there is none)
NextQuote(h, i) ==
    IF \E j \in i..Len(h) : h[j] = "'"
    THEN CHOOSE j \in i..Len(h) : h[j] = "'" /\ \A k \in i..(j - 1) : h[k] # "'"
    ELSE 0

\* the first position from i on that holds no white space (Len + 1 at the end)
SkipWs(h, i) ==
    CHOOSE j \in i..(Len(h) + 1) :
        /\ j = Len(h) + 1 \/ h[j] \notin Whitespace
        /\ \A k \in i..(j - 1) : h[k] \in Whitespace

\* the two arguments <<a, b>> of a call download('a','b') that starts at
\* position p of h, read left to right; None when h holds no such call there
CallAt(h, p) ==
    IF p + 9 > Len(h) \/ SubSeq(h, p, p + 9) # <<"d","o","w","n","l","o","a","d","(","'">>
    THEN None
    ELSE
      LET q1 == NextQuote(h, p + 10)
      IN  IF q1 <= p + 10 THEN None
          ELSE
            LET c == SkipWs(h, q1 + 1)
            IN  IF c > Len(h) \/ h[c] # "," THEN None
                ELSE
                  LET o == SkipWs(h, c + 1)
                  IN  IF o > Len(h) \/ h[o] # "'" THEN None
                      ELSE
                        LET q2 == NextQuote(h, o + 1)
                        IN  IF q2 <= o + 1 \/ q2 + 1 > Len(h) \/ h[q2 + 1] # ")"
                            THEN None
                            ELSE Some(<<SubSeq(h, p + 10, q1 - 1),
                                        SubSeq(h, o + 1, q2 - 1)>>)

\* the arguments of the leftmost download('a','b') call in h, or None
DownloadCall(h) ==
    LET P == {p \in 1..Len(h) : CallAt(h, p) # None}
    IN  IF P = {} THEN None
        ELSE CallAt(h, CHOOSE p \in P : \A q \in P : p <= q)

\* the link counts as an attachment
Qualifies(link) ==
    /\ link.href # None
    /\ Occurs(<<"d","o","w","n","l","o","a","d","(">>, link.href[1])
    /\ GetTextStrip(link.text) # << >>
    /\ DownloadCall(link.href[1]) # None

\* the name ends in ".pdf" in any mix of cases
IsPdfName(b) ==
    /\ Len(b) >= 4
    /\ b[Len(b) - 3] = "."
    /\ b[Len(b) - 2] \in {"p", "P"}
    /\ b[Len(b) - 1] \in {"d", "D"}
    /\ b[Len(b)] \in {"f", "F"}

QualifyingLinks == SelectSeq(call.resp.doc.links, Qualifies)

\* C7: the attachments are one entry per qualifying link (href with
\* "download(", non-empty visible text, a download('a','b') call), in link
\* order, with stored_name a, filename b and type "pdf" exactly when b ends
\* in ".pdf" regardless of case; attachment_count is their number.
C7_Attachments ==
    Fetched200 =>
        LET att == ret.detail[1].attachments
        IN  /\ Len(att) = Len(QualifyingLinks)
            /\ ret.detail[1].attachment_count = Len(att)
            /\ \A i \in 1..Len(att) :
                  LET ab == DownloadCall(QualifyingLinks[i].href[1])[1]
                  IN  /\ att[i].stored_name = ab[1]
                      /\ att[i].filename = ab[2]
                      /\ att[i].type = IF IsPdfName(ab[2]) THEN "pdf" ELSE "other"

\* two links, javascript:download('A.pdf','(notice).pdf') with text and a
\* download link without visible text: the one attachment is the former
C7_Witness ==
    /\ Fetched200
    /\ Len(call.resp.doc.links) = 2
    /\ \E i \in 1..2 :
          /\ call.resp.doc.links[i].href # None
          /\ GetTextStrip(call.resp.doc.links[i].text) = << >>
          /\ DownloadCall(call.resp.doc.links[i].href[1]) # None
    /\ ret.detail[1].attachment_count = 1
    /\ ret.detail[1].attachments =
           << [filename |-> NoticePdf, stored_name |-> <<"A",".","p","d","f">>,
               type |-> "pdf"] >>

\* C8: a fetch that raises or answers with a status other than 200 yields
\* None, which the endpoint answers with 404; no record is returned.
C8_FailedFetchNotFound ==
    (IsDetailCall /\ (call.resp.kind = "error" \/ call.resp.status # 200)) =>
        /\ ret.detail = None
        /\ ret.status_code = 404

\* a 500 answer whose page has neither heading nor content (the elements
\* a placeholder would stand for) is answered with 404 and no record
C8_Witness ==
    /\ IsDetailCall
    /\ call.resp.kind = "http" /\ call.resp.status = 500
    /\ call.resp.doc.h3tit = None /\ call.resp.doc.view_cont = None
    /\ ret.detail = None /\ ret.status_code = 404

\* C9: a document fetched with status 200 always yields a record; its title
\* is the text of the heading-class element, else of the generic heading,
\* else "Unknown"; its content is the text of the content container (cut
\* to the stored length), else the empty string.
C9_Placeholders ==
    Fetched200 =>
        LET doc == call.resp.doc
        IN  /\ ret.status_code = 200
            /\ ret.detail # None
            /\ ret.detail[1].title =
                  IF doc.h3tit # None THEN GetTextStrip(doc.h3tit[1])
                  ELSE IF doc.h2 # None THEN GetTextStrip(doc.h2[1])
                  ELSE <<"Unknown">>
            /\ ret.detail[1].content =
                  IF doc.view_cont # None
                  THEN Take(GetTextStrip(doc.view_cont[1]), ContentCap)
                  ELSE IF doc.content # None
                  THEN Take(GetTextStrip(doc.content[1]), ContentCap)
                  ELSE << >>

\* a fetched page with no heading and no content container at all
C9_Witness ==
    /\ Fetched200
    /\ call.resp.doc.h3tit = None /\ call.resp.doc.h2 = None
    /\ call.resp.doc.view_cont = None /\ call.resp.doc.content = None
    /\ ret.detail # None
    /\ ret.detail[1].title = <<"Unknown">>
    /\ ret.detail[1].content = << >>

(***************************************************************************)
(* Further claims about get_notice_list (specification SpecList)           *)
(***************************************************************************)
\* the fetch failed: session.get raised, or the status is not 200
ListFetchFailed == call.resp.kind = "error" \/ call.resp.status # 200

\* the table the parser settles on (the first one marked tableHor, else the
\* first one) has no body; TRUE also when the page has no table at all
NoTableBody ==
    LET T == call.resp.doc.tables
    IN  \/ T = << >>
        \/ \E i \in 1..Len(T) :
              /\ T[i].hor /\ T[i].tbody = None
              /\ \A j \in 1..(i - 1) : ~T[j].hor
        \/ /\ T # << >>
           /\ \A i \in 1..Len(T) : ~T[i].hor
           /\ T[1].tbody = None

\* C11: get_notice_list returns the empty sequence when the fetch fails,
\* when the status is not 200, when the document has no table and when the
\* chosen table has no body; the call always returns a sequence.
C11_EmptyOnFailure ==
    IsListCall =>
        /\ DOMAIN ret = 1..Len(ret)
        /\ (ListFetchFailed \/ NoTableBody) => ret = << >>

\* the chosen table has no body while another table of the page holds a
\* well-formed row: the result is empty all the same
C11_Witness ==
    /\ IsListCall
    /\ call.resp.kind = "http" /\ call.resp.status = 200
    /\ Len(call.resp.doc.tables) = 2
    /\ call.resp.doc.tables[1].tbody = None
    /\ call.resp.doc.tables[2].tbody # None
    /\ \E j \in 1..Len(call.resp.doc.tables[2].tbody[1]) :
          /\ WellFormed(call.resp.doc.tables[2].tbody[1][j])
          /\ ~call.resp.doc.tables[2].tbody[1][j].raises
    /\ ret = << >>

(***************************************************************************)
(* Claims about extract_bid_info on texts that touch every field           *)
(* (specification SpecFields)                                              *)
(***************************************************************************)
BidInfoKeys ==
    {"bid_date", "bid_location", "minimum_price", "deposit", "deposit_rate",
     "payment_deadline", "property_location", "area"}

\* the positions of the list's patterns that match the content somewhere
Hits(res) == {i \in 1..Len(res) : Search(res[i], call.content) # None}

\* no pattern of the list matches the content anywhere
NoHit(res) == \A i \in 1..Len(res) : Search(res[i], call.content) = None

\* C12: extract_bid_info returns, for every content, a record that holds
\* every BidInfo field as a key; for empty (or absent) content every field
\* is absent, and a field none of whose patterns matches is absent.
C12_Total ==
    IsExtractCall =>
        /\ DOMAIN ret = BidInfoKeys
        /\ call.content = << >> => \A k \in BidInfoKeys : ret[k] = None
        /\ NoHit(date_patterns) => ret.bid_date = None
        /\ NoHit(location_patterns) => ret.bid_location = None
        /\ NoHit(price_patterns) => ret.minimum_price = None
        /\ NoHit(DepositRes) => (ret.deposit = None /\ ret.deposit_rate = None)
        /\ NoHit(location_addr_patterns) => ret.property_location = None
        /\ NoHit(area_patterns) => ret.area = None
        /\ NoHit(payment_patterns) => ret.payment_deadline = None

\* a text with a date line and a price line and nothing else: the two
\* fields are set and every other field is absent
C12_Witness ==
    /\ IsExtractCall
    /\ ret.bid_date # None /\ ret.minimum_price # None
    /\ \A k \in BidInfoKeys \ {"bid_date", "minimum_price"} : ret[k] = None

(***************************************************************************)
(* Claims about interleaved callers (specification SpecCallers)            *)
(***************************************************************************)
IsCallers == call.fn = "callers"

Returned(p) == ret[p] # None

\* C13: however the statement groups of the callers are interleaved, a
\* caller that has returned holds the result extract_bid_info gives for its
\* content alone, and two callers with the same content hold identical
\* results.
C13_Independent ==
    IsCallers =>
        /\ \A p \in DOMAIN ret :
              Returned(p) => ret[p][1] = extract_bid_info(call.content[p])
        /\ \A p, q \in DOMAIN ret :
              (Returned(p) /\ Returned(q) /\ call.content[p] = call.content[q])
                  => ret[p] = ret[q]

\* the first caller returned while the second, on another text, was in the
\* middle of its loops with some fields already set
C13_Witness ==
    /\ IsCallers
    /\ Returned(1) /\ ~Returned(2)
    /\ call.content[1] # << >> /\ call.content[2] # << >>
    /\ call.content[1] # call.content[2]
    /\ call.pc[2] = "deposit"
    /\ call.info[2] # EmptyBidInfo
    /\ ret[1][1].deposit_rate # None

\* the first pattern of the list, in list order, that matches the content
FirstHit(res) == LET H == Hits(res) IN CHOOSE i \in H : \A j \in H : i <= j

\* what that pattern's group captures at its leftmost match
GroupOf(res) == Search(res[FirstHit(res)], call.content)[1].g[1]

\* the first matching pattern of the list and what it captures, or None
Captured(res) ==
    LET H == Hits(res)
    IN  IF H = {} THEN None
        ELSE LET first == CHOOSE i \in H : \A j \in H : i <= j
             IN  Some([idx |-> first, g |-> Search(res[first], call.content)[1].g[1]])

\* the field is what Value makes of the text captured by the first matching
\* pattern of the list, when a pattern of the list matches
FieldFrom(field, res, Value(_)) ==
    LET c == Captured(res) IN c # None => ret[field] = Value(c[1].g)

\* C15: each field takes its value from the first pattern of its own list,
\* in list order, that matches anywhere in the content, wherever in the text
\* the later patterns of the list match; the value of a field is decided by
\* its own list alone.
C15_FirstPatternWins ==
    IsExtractCall =>
        /\ FieldFrom("bid_date", date_patterns, LAMBDA g : Some(Strip(g)))
        /\ FieldFrom("bid_location", location_patterns,
                     LAMBDA g : Some(Take(Strip(g), LocCap)))
        /\ FieldFrom("minimum_price", price_patterns,
                     LAMBDA g : ParseInt(RemoveChar(g, ",")))
        /\ LET c == Captured(DepositRes)
           IN  c # None =>
                  IF deposit_patterns[c[1].idx].pct
                  THEN /\ ret.deposit_rate = Some(RemoveChar(c[1].g, ",") \o <<"%">>)
                       /\ ret.deposit = None
                  ELSE /\ ret.deposit = ParseInt(RemoveChar(c[1].g, ","))
                       /\ ret.deposit_rate = None
        /\ FieldFrom("property_location", location_addr_patterns,
                     LAMBDA g : Some(Take(Strip(g), AddrCap)))
        /\ FieldFrom("area", area_patterns, LAMBDA g : Some(Strip(g)))
        /\ FieldFrom("payment_deadline", payment_patterns, LAMBDA g : Some(Strip(g)))

\* the text opens with a line the third date pattern matches and goes on
\* with a line the second one matches: the date is that of the second line
C15_Witness ==
    /\ IsExtractCall
    /\ Take(call.content, 4) = <<"Mae","Gak","Gi","Il">>
    /\ {2, 3} \subseteq Hits(date_patterns)
    /\ ret.bid_date = Some(<<"2","0","2","5","Nyeon"," ","3","Wol","4","Il">>)

(***************************************************************************)
(* Further claims about extract_bid_info (specification SpecBid)           *)
(***************************************************************************)
\* the first matching pattern of the list captures text that is no integer
\* once its commas are removed
Unparsable(res) ==
    LET c == Captured(res)
    IN  c # None /\ ParseInt(RemoveChar(c[1].g, ",")) = None

\* the first matching deposit pattern is an amount pattern
AmountFirst ==
    LET c == Captured(DepositRes)
    IN  c # None /\ ~deposit_patterns[c[1].idx].pct

\* C16: when the first matching price pattern captures text that does not
\* parse, minimum_price is absent whatever the later price patterns match;
\* when the first matching deposit pattern is an amount pattern and captures
\* text that does not parse, deposit and deposit_rate are both absent.
C16_ParseFailureAbsent ==
    IsExtractCall =>
        /\ Unparsable(price_patterns) => ret.minimum_price = None
        /\ (AmountFirst /\ Unparsable(DepositRes))
              => (ret.deposit = None /\ ret.deposit_rate = None)

\* the deposit label is followed by a comma alone and, further on, by a
\* rate: the amount pattern matches first, so neither field is set; the
\* price pattern that matches captures a comma alone too
C16_Witness ==
    /\ IsExtractCall
    /\ Hits(DepositRes) = {1, 4}
    /\ GroupOf(DepositRes) = <<",">>
    /\ Unparsable(price_patterns)
    /\ ret.deposit = None /\ ret.deposit_rate = None /\ ret.minimum_price = None

(***************************************************************************)
(* The views field (specification SpecList)                                *)
(***************************************************************************)
\* the text of the row's fifth cell, empty when the cell is missing or blank
ViewCount(row) ==
    IF Len(row.cells) >= 5 THEN GetTextStrip(row.cells[5].text) ELSE << >>

\* C14: the views of an emitted summary is the row's view count, and "0"
\* when the row supplies none.
C14_ViewsDefault ==
    IsListCall =>
        \A k \in 1..Len(EmittedPositions) :
            k <= Len(ret) =>
                ret[k].views = IF ViewCount(PageRows[EmittedPositions[k]]) # << >>
                               THEN ViewCount(PageRows[EmittedPositions[k]])
                               ELSE <<"0">>

(***************************************************************************)
(* Further claims about get_notice_detail (specification SpecDetail)       *)
(***************************************************************************)
\* the text of the page's content container, uncut
FullText ==
    IF call.resp.doc.view_cont # None THEN GetTextStrip(call.resp.doc.view_cont[1])
    ELSE IF call.resp.doc.content # None THEN GetTextStrip(call.resp.doc.content[1])
    ELSE << >>

\* a is b, or b cut after some character
IsPrefix(a, b) == Len(a) <= Len(b) /\ \A i \in 1..Len(a) : a[i] = b[i]

\* the positions of the list's patterns that match the text somewhere
HitsIn(res, text) == {i \in 1..Len(res) : Search(res[i], text) # None}

\* what the first matching pattern of the list captures in the text, stripped
CapturedIn(res, text) ==
    LET H == HitsIn(res, text)
    IN  Strip(Search(res[CHOOSE i \in H : \A j \in H : i <= j], text)[1].g[1])

\* v is absent, or at most cap characters that open the captured text, and
\* all of it when the captured text is no longer than cap
Capped(v, res, cap) ==
    v # None =>
        /\ Len(v[1]) <= cap
        /\ HitsIn(res, FullText) # {}
        /\ IsPrefix(v[1], CapturedIn(res, FullText))
        /\ Len(CapturedIn(res, FullText)) <= cap => v[1] = CapturedIn(res, FullText)

\* C17: whatever the size of the document, bid_location has at most 100
\* characters, property_location at most 200 and the stored content at most
\* 2000; each is a prefix of the stripped matched text (of the full text for
\* the content).
C17_Capped ==
    Fetched200 =>
        /\ Len(ret.detail[1].content) <= ContentCap
        /\ IsPrefix(ret.detail[1].content, FullText)
        /\ Len(FullText) <= ContentCap => ret.detail[1].content = FullText
        /\ Capped(ret.detail[1].bid_info.bid_location, location_patterns, LocCap)
        /\ Capped(ret.detail[1].bid_info.property_location, location_addr_patterns,
                  AddrCap)

\* a document whose bid place, address and text each overrun their cap:
\* the three outputs are exactly as long as their caps
C17_Witness ==
    /\ Fetched200
    /\ Len(FullText) > ContentCap
    /\ Len(CapturedIn(location_patterns, FullText)) > LocCap
    /\ Len(CapturedIn(location_addr_patterns, FullText)) > AddrCap
    /\ Len(ret.detail[1].content) = ContentCap
    /\ Len(ret.detail[1].bid_info.bid_location[1]) = LocCap
    /\ Len(ret.detail[1].bid_info.property_location[1]) = AddrCap

\* some keyword of the group occurs in the lower-cased title + " " + text
KeywordIn(kws, text) ==
    \E n \in 1..Len(kws) : Occurs(kws[n], Lower(ret.detail[1].title \o <<" ">> \o text))

\* the label of the first keyword group, in the categorizer's order, with a
\* keyword in the title or the text
CategoryOver(text) ==
    IF KeywordIn(real_estate_keywords, text) THEN "RealEstate"
    ELSE IF KeywordIn(movable_keywords, text) THEN "Movable"
    ELSE IF KeywordIn(bond_keywords, text) THEN "Bond"
    ELSE "Other"

\* C18: the category and the bid info of the record are those of the full
\* content text, also where the text is longer than the 2000 characters
\* that are stored.
C18_FromFullContent ==
    Fetched200 =>
        /\ ret.detail[1].category = CategoryOver(FullText)
        /\ \A k \in BidInfoKeys :
              ret.detail[1].bid_info[k] = extract_bid_info(FullText)[k]

\* the only keyword and the only deposit line of the page lie beyond
\* character 2000: the stored content has neither, the record has both
C18_Witness ==
    /\ Fetched200
    /\ Len(FullText) > ContentCap
    /\ CategoryOver(Take(FullText, ContentCap)) = "Other"
    /\ HitsIn(DepositRes, Take(FullText, ContentCap)) = {}
    /\ ret.detail[1].category = "RealEstate"
    /\ ret.detail[1].bid_info.deposit_rate = Some(<<"1","0","%">>)

(***************************************************************************)
(* Claims about /api/stats and /api/search (specification SpecPages)       *)
(***************************************************************************)
IsStatsCall == call.fn = "get_stats"
IsSearchCall == call.fn = "search_notices"

\* what listing page p yields on its own, with the endpoints' limit
PerPage(p) == get_notice_list(call.fetches[p], PageLimit)

\* the per-page results of pages 1..n one after another
RECURSIVE Concatenated(_)
Concatenated(n) == IF n = 0 THEN << >> ELSE Concatenated(n - 1) \o PerPage(n)

RECURSIVE SumOfCounts(_)
SumOfCounts(n) == IF n = 0 THEN 0 ELSE SumOfCounts(n - 1) + Len(PerPage(n))

\* the notice passes the filters of the search call
Selected(n) ==
    /\ \/ Occurs(Lower(call.keyword), Lower(n.title))
       \/ Occurs(Lower(call.keyword), Lower(n.court))
       \/ Occurs(Lower(call.keyword), Lower(n.debtor))
    /\ call.category # None => n.category = call.category[1]

\* C19: the aggregate of /api/stats and /api/search over N pages is the
\* concatenation, in page order, of what each of the pages 1..N yields on
\* its own with limit 10; a page that fails or is empty adds nothing and the
\* pages after it still count; the total is the sum of the per-page counts
\* and at most 10 * N.
C19_PagesConcatenated ==
    (IsStatsCall \/ IsSearchCall) =>
        LET all == Concatenated(call.pages)
        IN  /\ Len(all) = SumOfCounts(call.pages)
            /\ Len(all) <= PageLimit * call.pages
            /\ IsStatsCall =>
                  /\ ret.pages_scraped = call.pages
                  /\ ret.total_count = Len(all)
                  /\ \A c \in DOMAIN ret.category_stats :
                        ret.category_stats[c] =
                            Cardinality({i \in 1..Len(all) : all[i].category = c})
            /\ IsSearchCall =>
                  /\ ret.total_searched = Len(all)
                  /\ ret.notices = SelectSeq(all, Selected)
                  /\ ret.match_count = Len(ret.notices)

\* three pages: the first yields two notices, the fetch of the second
\* fails, the third holds eleven rows; the search returns the two and the
\* ten, in this order
C19_Witness ==
    /\ IsSearchCall
    /\ call.pages = 3
    /\ call.category = None
    /\ Len(PerPage(1)) = 2 /\ call.fetches[2].kind = "error" /\ Len(PerPage(3)) = PageLimit
    /\ ret.total_searched = 2 + PageLimit
    /\ ret.notices = PerPage(1) \o PerPage(3)

(***************************************************************************)
(* The limit and the skip rules (specification SpecList)                   *)
(***************************************************************************)
\* the positions of the page's rows that would make a summary
GoodRows == {j \in 1..Len(PageRows) : WellFormed(PageRows[j]) /\ ~PageRows[j].raises}

\* C20: the limit counts table rows, not summaries: the summaries are as
\* many as the well-formed rows among the first `limit` rows, and a row
\* found only beyond position `limit` has no summary, however many of the
\* rows before it were skipped.
C20_LimitCountsRows ==
    IsListCall =>
        /\ Len(ret) = Cardinality({j \in GoodRows : j <= call.limit})
        /\ \A j \in 1..Len(PageRows) :
              (j > call.limit /\ \A e \in Examined : PageRows[e] # PageRows[j])
                  => \A i \in 1..Len(ret) : ret[i].num # RowNum(PageRows[j])

\* limit 2 on a page of three rows, two of them well-formed: the first row
\* is skipped, the second is the only summary, the third is never looked at
C20_Witness ==
    /\ IsListCall
    /\ call.limit = 2 /\ Len(PageRows) = 3
    /\ Cardinality(GoodRows) >= call.limit
    /\ 1 \notin GoodRows /\ 3 \in GoodRows
    /\ PageRows[3] # PageRows[2]
    /\ Len(ret) = 1
    /\ ret[1].num = RowNum(PageRows[2])

=============================================================================
